---- MODULE Spec2Model ----
(***************************************************************************)
(* State-machine model of the sigmaTrading scripts.                        *)
(*                                                                         *)
(* Every file of the repository is an independent script that opens one    *)
(* session to the brokerage API.  The variable `script' selects which one  *)
(* runs; the threads of that script are                                    *)
(*   - the main thread, whose position is `main_pc',                       *)
(*   - the API read loop, which delivers the callbacks (one action per     *)
(*     callback, enabled while the session is connected),                  *)
(*   - for the news trader, the order-adjustment thread (`adj_pc').        *)
(*                                                                         *)
(* Prices are held in hundredths (1.0 is 100), so that the spreads         *)
(* 0.05 / 0.2 / 0.02 of the news trader are integers.                      *)
(***************************************************************************)
EXTENDS Integers, Sequences, FiniteSets, TLC

VARIABLES
    script,               \* which script of the repository is running
    main_pc,              \* position of the main thread
    connected,            \* the API session is open (callbacks are delivered)
    \* ---- news.py: TwsWrapper / Trader
    nextValidOrderId,     \* TwsWrapper.nextValidOrderId
    last_price,           \* TwsWrapper.last_price
    set_price,            \* TwsWrapper.set_price
    status,               \* TwsWrapper.status (TraderStatus)
    orders,               \* the six Order objects, by attribute name
    adj_pc,               \* position of the update_loop thread
    subscribed,           \* reqMktData(3, ...) has been sent
    placed,               \* order ids, as they travel on the wire, sent by placeOrder
    order_cb,             \* the orderStatus callback that is running: its id and status
    os_pc,                \* position of the API thread inside orderStatus
    os_entry,             \* the trader status when that callback was entered
    open,                 \* order ids open at the broker: placed, not filled or cancelled
    err_log,              \* the error the error callback has logged last
    stop_status,          \* the trader status stop() has read
    \* ---- the request loops of conid_scraper.py and tws/snapshot.py
    nextId,               \* TwsTool.nextId
    months,               \* self.months
    strikes,              \* self.strikes
    o,                    \* the local o: the id of the next request
    idx,                  \* position of the running for loop in its list
    sent,                 \* request ids sent to the API so far
    \* ---- conid_scraper.py: IdScraper
    data,                 \* self.data
    have_all,             \* the local have_all of wait_for_finish
    written,              \* the items put to the Dynamo DB table
    \* ---- tws/snapshot.py: Snapshot
    chain,                \* self.chain
    account,              \* self.account: conId -> position, avg price, strike
    acct_updates_ongoing, \* self.acct_updates_ongoing
    acctSubscribed,       \* reqAccountUpdates(True, ...) has been sent
    p_from,               \* self.p_from
    p_to,                 \* self.p_to
    p_step,               \* self.p_step
    found,                \* the local found of wait_to_finish
    c1,                   \* the local c1 of wait_to_finish
    c_prev,               \* the local c_prev of wait_to_finish
    missing_log,          \* the counts wait_to_finish has logged, one per poll
    response,             \* export_dynamo: HTTPStatusCode of the put_item response
    export_log,           \* export_dynamo: what it has logged about the export
    put_items,            \* export_dynamo: number of put_item calls made
    \* ---- tws/portfolio.py: Portfolio
    haveData,             \* self.haveData
    summaryRequested,     \* reqAccountSummary has been sent
    portfolio             \* self.portfolio

commonVars == << script, main_pc, connected >>

newsVars == << nextValidOrderId, last_price, set_price, status, orders, adj_pc,
               subscribed, placed, order_cb, os_pc, os_entry, open, err_log,
               stop_status >>

\* the bookkeeping of the orderStatus callback, and the logs
cbVars == << order_cb, os_pc, os_entry >>

logVars == << err_log, stop_status >>

reqVars == << nextId, months, strikes, o, idx, sent >>

scraperVars == << data, have_all, written >>

snapVars == << chain, account, acct_updates_ongoing, acctSubscribed, p_from, p_to,
               p_step, found, c1, c_prev, missing_log, response, export_log,
               put_items >>

exportVars == << response, export_log, put_items >>

waitVars == << found, c1, c_prev, missing_log >>

rangeVars == << p_from, p_to, p_step >>

pfVars == << haveData, summaryRequested, portfolio >>

vars == << commonVars, newsVars, reqVars, scraperVars, snapVars, pfVars >>

toolVars == << reqVars, scraperVars, snapVars, pfVars >>

(***************************************************************************)
(* Bounds of the model and inputs of the environment.                      *)
(***************************************************************************)
MaxOrderId == 2           \* nextValidId delivers an id in 1..MaxOrderId

LastTicks == {100}        \* prices of the ticks the market sends (1.00)

TICK_LAST == 4            \* TickTypeEnum.LAST
TICK_BID == 1             \* TickTypeEnum.BID
TICK_ASK == 2             \* TickTypeEnum.ASK

TickTypes == {TICK_BID, TICK_LAST}

OrderStates == {"PreSubmitted", "Submitted", "Filled", "Cancelled"}

UserInputs == {"H", "C", "Q", ""}

\* Errors the API reports: a notice that belongs to no request (id -1), and
\* "no security definition found" for the market data request of req_data
Errors == { [ id |-> -1, code |-> 2104 ], [ id |-> 3, code |-> 200 ] }

MaxClosed == 1            \* orders the broker fills or cancels on its own

MaxNextId == 1            \* TwsTool.nextId is in 1..MaxNextId when the script starts

MaxPairs == 2             \* IdScraper: (month, strike) pairs of the option chain

ConIds == {7}             \* contract ids the API reports (never 0)

TradeDates == {20190117}  \* lastTradeDateOrContractMonth the API reports

MaxChain == 2             \* Snapshot: records of the option chain

SnapMonths == 0..1        \* Snapshot: number of months the configuration asks for

SnapPrices == 1..2        \* Snapshot: price.from, price.to and the strikes of positions

SnapSteps == {1}          \* Snapshot: price.step

TickValues == {3}         \* values of the price and option computation ticks

Positions == {1}          \* position sizes and average costs of updatePortfolio

AcctConIds == {7, 8}      \* contracts held in the account

Symbols == {"CL", "ES"}   \* symbols of the contracts held; the configured one is CL

MaxPortfolio == 1         \* Portfolio: updatePortfolio callbacks that are followed

TICK_MODEL_OPTION == 13   \* TickTypeEnum.MODEL_OPTION

HTTP_OK == 200            \* the status code export_dynamo takes for success

HttpCodes == {HTTP_OK, 500}  \* status codes of the put_item response

\* tick types of tickOptionComputation: the model computation and the one of
\* the last price
OptionTickTypes == {TICK_MODEL_OPTION, 12}

\* tick types of Snapshot.tickPrice: bid, ask and last
PriceTickTypes == {TICK_BID, TICK_ASK, TICK_LAST}

(***************************************************************************)
(* Python values.  An order id is either an int or the str() of an int;    *)
(* == between an int and a str is False in Python, whatever they spell.    *)
(***************************************************************************)
IntV(n) == [k |-> "int", v |-> n]

\* str(n) for an int n: the decimal string spelling n
StrOfInt(n) == [k |-> "str", v |-> n]

\* str(x) for a Python value x: a str is returned as it is
StrV(x) == IF x.k = "str" THEN x ELSE StrOfInt(x.v)

\* Python's ==
PyEq(a, b) == a.k = b.k /\ a.v = b.v

\* The id as the client writes it into the placeOrder / cancelOrder message
\* and as the API decodes it again (an int) for the callbacks
Wire(x) == x.v

(***************************************************************************)
(* news.py: constants of TwsWrapper.__init__ (prices in hundredths)        *)
(***************************************************************************)
UNSET_ID == -1            \* nextValidOrderId before nextValidId
UNSET_PRICE == -100       \* last_price, set_price = -1.0
entry_spread == 5         \* 0.05
tgt_spread == 20          \* 0.2
trail_spread == 20        \* 0.2
delta_adjust == 2         \* 0.02
DEFAULT_ORDER_ID == 0     \* orderId and parentId of a fresh Order()

\* No orderStatus callback is running
NoCallback == [ id |-> UNSET_ID, ost |-> "" ]

OrderNames == << "long_entry", "long_tgt", "long_trail",
                 "short_entry", "short_tgt", "short_trail" >>

\* A fresh Order() with the fields TwsWrapper.__init__ sets
NewOrder(action, orderType, ocaGroup) ==
    [ orderId |-> IntV(DEFAULT_ORDER_ID), parentId |-> IntV(DEFAULT_ORDER_ID),
      action |-> action, orderType |-> orderType, totalQuantity |-> 1,
      transmit |-> FALSE, ocaGroup |-> ocaGroup ]

InitOrders ==
    [ long_entry  |-> NewOrder("BUY", "STP LMT", ""),
      long_tgt    |-> NewOrder("SELL", "LMT", "News_Long"),
      long_trail  |-> NewOrder("SELL", "TRAIL", "News_Long"),
      short_entry |-> NewOrder("SELL", "STP LMT", ""),
      short_tgt   |-> NewOrder("BUY", "LMT", "News_Short"),
      short_trail |-> NewOrder("BUY", "TRAIL", "News_Short") ]

\* TwsWrapper.get_orders
get_orders(ord) == [ i \in 1..6 |-> ord[OrderNames[i]] ]

\* A variant of prepare_orders: the short exits hang on the long entry
prepare_ordersCrossed(ord, lp, nv) ==
    IF lp <= 0 THEN ord
    ELSE LET le == StrV(IntV(nv))
         IN [ ord EXCEPT
                !.long_entry.orderId = le,
                !.long_tgt.orderId = StrV(IntV(nv + 1)),
                !.long_tgt.parentId = StrV(le),
                !.long_trail.orderId = StrV(IntV(nv + 2)),
                !.long_trail.parentId = StrV(le),
                !.short_entry.orderId = StrV(IntV(nv + 3)),
                !.short_tgt.orderId = StrV(IntV(nv + 4)),
                !.short_tgt.parentId = StrV(le),
                !.short_trail.orderId = StrV(IntV(nv + 5)),
                !.short_trail.parentId = StrV(le) ]

\* TwsWrapper.prepare_orders: the orders after the call
prepare_orders(ord, lp, nv) ==
    IF lp <= 0 THEN ord
    ELSE LET le == StrV(IntV(nv))
             se == StrV(IntV(nv + 3))
         IN [ ord EXCEPT
                !.long_entry.orderId = le,
                !.long_entry.ocaGroup = "News trader",
                !.long_tgt.orderId = StrV(IntV(nv + 1)),
                !.long_tgt.parentId = StrV(le),
                !.long_trail.orderId = StrV(IntV(nv + 2)),
                !.long_trail.parentId = StrV(le),
                !.short_entry.orderId = se,
                !.short_entry.ocaGroup = "News Trader",
                !.short_tgt.orderId = StrV(IntV(nv + 4)),
                !.short_tgt.parentId = StrV(se),
                !.short_trail.orderId = StrV(IntV(nv + 5)),
                !.short_trail.parentId = StrV(se) ]

\* TwsWrapper.orderStatus, the first if: the status after it
orderStatusIf1(st, ord, order_id) ==
    IF PyEq(order_id, ord.long_entry.orderId) \/ PyEq(order_id, ord.short_entry.orderId)
    THEN "ACTIVE" ELSE st

\* TwsWrapper.orderStatus, the second if
orderStatusIf2(st, ord, order_id) ==
    IF PyEq(order_id, ord.long_trail.orderId) \/ PyEq(order_id, ord.long_tgt.orderId)
    THEN "COLD" ELSE st

\* TwsWrapper.orderStatus, the third if
orderStatusIf3(st, ord, order_id) ==
    IF PyEq(order_id, ord.short_trail.orderId) \/ PyEq(order_id, ord.short_tgt.orderId)
    THEN "COLD" ELSE st

\* The ids the six placeOrder calls of place_orders / update_order_prices send
PlacedIds(ord) == { Wire(get_orders(ord)[i].orderId) : i \in 1..6 }

\* The broker after placeOrder for these ids: an id it has not seen opens an
\* order, an id of an open order modifies that order, an id of an order that
\* was filled or cancelled is refused
BrokerPlace(op, pl, ids) == op \cup (ids \ pl)

\* The broker after an order status it reports
BrokerReport(op, order_id, ost) ==
    IF ost \in {"Filled", "Cancelled"} THEN op \ {order_id} ELSE op

NoError == [ id |-> 0, code |-> 0 ]

Abs(x) == IF x < 0 THEN -x ELSE x

(***************************************************************************)
(* Initial state: the state after the constructors.                        *)
(***************************************************************************)
InitNewsVars ==
    /\ nextValidOrderId = UNSET_ID
    /\ last_price = UNSET_PRICE
    /\ set_price = UNSET_PRICE
    /\ status = "COLD"
    /\ orders = InitOrders
    /\ adj_pc = "off"
    /\ subscribed = FALSE
    /\ placed = {}
    /\ order_cb = NoCallback
    /\ os_pc = "idle"
    /\ os_entry = ""
    /\ open = {}
    /\ err_log = NoError
    /\ stop_status = ""

InitReqVars ==
    /\ nextId \in 1..MaxNextId
    /\ o = 0
    /\ idx = 0
    /\ sent = {}

InitScraperVars ==
    /\ data = << >>
    /\ have_all = FALSE
    /\ written = << >>

InitRangeVars ==
    /\ p_from = 0
    /\ p_to = 0
    /\ p_step = 1

InitNews ==
    /\ script = "news"
    /\ main_pc = "n_wait_id"
    /\ connected = TRUE
    /\ nextId = 1
    /\ months = << >>
    /\ strikes = << >>
    /\ InitRangeVars

(***************************************************************************)
(* news.py: callbacks delivered by the API thread, one message at a time   *)
(***************************************************************************)
\* TwsWrapper.nextValidId; the API sends it once, after connecting
nextValidId(order_id) ==
    /\ script = "news" /\ connected /\ os_pc = "idle"
    /\ nextValidOrderId = UNSET_ID
    /\ nextValidOrderId' = order_id
    /\ UNCHANGED << script, main_pc, connected, last_price, set_price, status,
                    orders, adj_pc, subscribed, placed, open, cbVars, logVars,
                    toolVars >>

\* TwsWrapper.tickPrice; ticks arrive for the subscription of req_data
tickPrice(tick_type, price) ==
    /\ script = "news" /\ connected /\ subscribed /\ os_pc = "idle"
    /\ last_price' = IF tick_type = TICK_LAST THEN price ELSE last_price
    /\ UNCHANGED << script, main_pc, connected, nextValidOrderId, set_price,
                    status, orders, adj_pc, subscribed, placed, open, cbVars,
                    logVars, toolVars >>

\* TwsWrapper.orderStatus, up to its first if; the API reports orders that
\* were placed, with the order id decoded as an int.  The other threads run
\* between the statements of the callback.
orderStatus(order_id, ost) ==
    /\ script = "news" /\ connected /\ os_pc = "idle"
    /\ order_id \in placed
    /\ BrokerReport(open, order_id, ost) # open => Cardinality(placed \ open) < MaxClosed
    /\ open' = BrokerReport(open, order_id, ost)
    /\ order_cb' = [ id |-> order_id, ost |-> ost ]
    /\ os_entry' = status
    /\ status' = orderStatusIf1(status, orders, IntV(order_id))
    /\ os_pc' = "if2"
    /\ UNCHANGED << script, main_pc, connected, nextValidOrderId, last_price,
                    set_price, orders, adj_pc, subscribed, placed, logVars,
                    toolVars >>

\* TwsWrapper.orderStatus, the second if
OrderStatusSecondIf ==
    /\ os_pc = "if2"
    /\ status' = orderStatusIf2(status, orders, IntV(order_cb.id))
    /\ os_pc' = "if3"
    /\ UNCHANGED << script, main_pc, connected, nextValidOrderId, last_price,
                    set_price, orders, adj_pc, subscribed, placed, open, order_cb,
                    os_entry, logVars, toolVars >>

\* TwsWrapper.orderStatus, the third if and the return
OrderStatusThirdIf ==
    /\ os_pc = "if3"
    /\ status' = orderStatusIf3(status, orders, IntV(order_cb.id))
    /\ os_pc' = "idle"
    /\ order_cb' = NoCallback
    /\ os_entry' = ""
    /\ UNCHANGED << script, main_pc, connected, nextValidOrderId, last_price,
                    set_price, orders, adj_pc, subscribed, placed, open, logVars,
                    toolVars >>

\* TwsWrapper.execDetails and execDetailsEnd: log only
execDetails ==
    /\ script = "news" /\ connected /\ os_pc = "idle"
    /\ placed # {}
    /\ UNCHANGED vars

\* A variant of error: the callback takes the trader off the market
ErrorSetsCold(req_id, error_code) ==
    /\ script = "news" /\ connected /\ os_pc = "idle"
    /\ err_log' = [ id |-> req_id, code |-> error_code ]
    /\ status' = "COLD"
    /\ UNCHANGED << script, main_pc, connected, nextValidOrderId, last_price,
                    set_price, orders, adj_pc, subscribed, placed, open,
                    cbVars, stop_status, toolVars >>

\* TwsWrapper.error: self.logger.error(...), nothing else
error(req_id, error_code) ==
    /\ script = "news" /\ connected /\ os_pc = "idle"
    /\ err_log' = [ id |-> req_id, code |-> error_code ]
    /\ UNCHANGED << script, main_pc, connected, nextValidOrderId, last_price,
                    set_price, status, orders, adj_pc, subscribed, placed, open,
                    cbVars, stop_status, toolVars >>

(***************************************************************************)
(* news.py: the main thread (Trader.__init__, main, trade, stop)           *)
(***************************************************************************)
\* Trader.__init__: while self.nextValidOrderId == -1: sleep
TraderInit ==
    /\ main_pc = "n_wait_id"
    /\ nextValidOrderId # UNSET_ID
    /\ main_pc' = "n_req_data"
    /\ UNCHANGED << script, connected, newsVars, toolVars >>

\* Trader.req_data, then main's sleep(6)
req_data ==
    /\ main_pc = "n_req_data"
    /\ subscribed' = TRUE
    /\ main_pc' = "n_prepare"
    /\ UNCHANGED << script, connected, nextValidOrderId, last_price, set_price,
                    status, orders, adj_pc, placed, open, cbVars, logVars,
                    toolVars >>

\* Trader.trade: self.prepare_orders()
TradePrepare ==
    /\ main_pc = "n_prepare"
    /\ orders' = prepare_orders(orders, last_price, nextValidOrderId)
    /\ main_pc' = "n_price"
    /\ UNCHANGED << script, connected, nextValidOrderId, last_price, set_price,
                    status, adj_pc, subscribed, placed, open, cbVars, logVars,
                    toolVars >>

\* Trader.trade: self.wrapper_price_update(self.get_last_price()); the limit,
\* stop and trail prices of the six orders are set_price plus or minus the
\* spreads
TradePriceUpdate ==
    /\ main_pc = "n_price"
    /\ set_price' = last_price
    /\ main_pc' = "n_place"
    /\ UNCHANGED << script, connected, nextValidOrderId, last_price, status,
                    orders, adj_pc, subscribed, placed, open, cbVars, logVars,
                    toolVars >>

\* Trader.place_orders on the main thread: the six placeOrder calls
MainPlaceOrders ==
    /\ main_pc \in {"n_place", "n_place_h"}
    /\ placed' = placed \cup PlacedIds(orders)
    /\ open' = BrokerPlace(open, placed, PlacedIds(orders))
    /\ main_pc' = IF main_pc = "n_place" THEN "n_hot" ELSE "n_hot_h"
    /\ UNCHANGED << script, connected, nextValidOrderId, last_price, set_price,
                    status, orders, adj_pc, subscribed, cbVars, logVars, toolVars >>

\* Trader.place_orders on the main thread: self.status = TraderStatus.HOT;
\* after the first call trade() starts the update_loop thread, after the
\* call of command H it calls set_trader_status(HOT)
MainSetHot ==
    /\ main_pc \in {"n_hot", "n_hot_h"}
    /\ status' = "HOT"
    /\ adj_pc' = IF main_pc = "n_hot" THEN "sleep" ELSE adj_pc
    /\ main_pc' = IF main_pc = "n_hot" THEN "n_input" ELSE "n_set_h"
    /\ UNCHANGED << script, connected, nextValidOrderId, last_price, set_price,
                    orders, subscribed, placed, open, cbVars, logVars, toolVars >>

\* Trader.trade, command H: self.set_trader_status(TraderStatus.HOT)
MainSetTraderStatusHot ==
    /\ main_pc = "n_set_h"
    /\ status' = "HOT"
    /\ main_pc' = "n_h_active"
    /\ UNCHANGED << script, connected, nextValidOrderId, last_price, set_price,
                    orders, adj_pc, subscribed, placed, open, cbVars, logVars,
                    toolVars >>

\* Trader.trade, command H: the second if, which only logs an error when
\* the status is ACTIVE, and the return to the prompt
UserCommandHActive ==
    /\ main_pc = "n_h_active"
    /\ main_pc' = "n_input"
    /\ UNCHANGED << script, connected, nextValidOrderId, last_price, set_price,
                    status, orders, adj_pc, subscribed, placed, open, cbVars,
                    logVars, toolVars >>

\* a command H that places the orders whatever the status is
UserCommandHAlways(user_input) ==
    /\ main_pc = "n_input"
    /\ user_input = "H"
    /\ main_pc' = "n_place_h"
    /\ UNCHANGED << script, connected, nextValidOrderId, last_price, set_price,
                    status, orders, adj_pc, subscribed, placed, open, cbVars,
                    logVars, toolVars >>

\* Trader.trade: one turn of the input loop.  Command H with a COLD status
\* goes on to place_orders, with any other status to its second if.
\* Command C with a HOT or ACTIVE status calls self.cancelOrders(), a method
\* that neither Trader nor the API client defines: the AttributeError ends
\* the main thread.
UserCommand(user_input) ==
    /\ main_pc = "n_input"
    /\ CASE user_input = "H" ->
              /\ main_pc' = IF status = "COLD" THEN "n_place_h"
                                              ELSE "n_h_active"
              /\ status' = status
         [] user_input = "C" ->
              IF status \in {"HOT", "ACTIVE"}
              THEN /\ main_pc' = "n_crashed"
                   /\ status' = status
              ELSE /\ main_pc' = "n_input"
                   /\ status' = "COLD"
         [] user_input = "Q" ->
              /\ main_pc' = "n_stop"
              /\ status' = status
         [] OTHER ->
              /\ main_pc' = "n_input"
              /\ status' = status
    /\ UNCHANGED << script, connected, nextValidOrderId, last_price, set_price,
                    orders, adj_pc, subscribed, placed, open, cbVars, logVars,
                    toolVars >>

\* Trader.cancel_orders: cancelOrder for the six orders
cancel_orders(op, ord) == op \ PlacedIds(ord)

\* Trader.stop: if self.status == TraderStatus.HOT: self.cancel_orders()
stop ==
    /\ main_pc = "n_stop"
    /\ stop_status' = status
    /\ open' = IF status = "HOT" THEN cancel_orders(open, orders) ELSE open
    /\ main_pc' = "n_disconnect"
    /\ UNCHANGED << script, connected, nextValidOrderId, last_price, set_price,
                    status, orders, adj_pc, subscribed, placed, cbVars, err_log,
                    toolVars >>

\* Trader.stop: cancelMktData(3), disconnect(), print_pnl()
StopDisconnect ==
    /\ main_pc = "n_disconnect"
    /\ subscribed' = FALSE
    /\ connected' = FALSE
    /\ main_pc' = "n_done"
    /\ UNCHANGED << script, nextValidOrderId, last_price, set_price, status,
                    orders, adj_pc, placed, open, cbVars, logVars, toolVars >>

(***************************************************************************)
(* news.py: Trader.update_loop, the order-adjustment thread                *)
(***************************************************************************)
\* the test of the if, after the sleep
AdjCheck ==
    /\ adj_pc = "sleep"
    /\ status = "HOT"
    /\ Abs(set_price - last_price) > delta_adjust
    /\ adj_pc' = "update"
    /\ UNCHANGED << script, main_pc, connected, nextValidOrderId, last_price,
                    set_price, status, orders, subscribed, placed, open, cbVars,
                    logVars, toolVars >>

\* self.wrapper_price_update(self.last_price)
AdjPriceUpdate ==
    /\ adj_pc = "update"
    /\ set_price' = last_price
    /\ adj_pc' = "place"
    /\ UNCHANGED << script, main_pc, connected, nextValidOrderId, last_price,
                    status, orders, subscribed, placed, open, cbVars, logVars,
                    toolVars >>

\* self.place_orders(): the six placeOrder calls; a client that is no longer
\* connected reports an error and sends nothing
AdjPlaceOrders ==
    /\ adj_pc = "place"
    /\ placed' = IF connected THEN placed \cup PlacedIds(orders) ELSE placed
    /\ open' = IF connected THEN BrokerPlace(open, placed, PlacedIds(orders)) ELSE open
    /\ adj_pc' = "hot"
    /\ UNCHANGED << script, main_pc, connected, nextValidOrderId, last_price,
                    set_price, status, orders, subscribed, cbVars, logVars,
                    toolVars >>

\* self.place_orders(): self.status = TraderStatus.HOT
AdjSetHot ==
    /\ adj_pc = "hot"
    /\ status' = "HOT"
    /\ adj_pc' = "sleep"
    /\ UNCHANGED << script, main_pc, connected, nextValidOrderId, last_price,
                    set_price, orders, subscribed, placed, open, cbVars, logVars,
                    toolVars >>

(***************************************************************************)
(* Python dicts: item assignment adds the key when it is missing           *)
(***************************************************************************)
SetKey(r, key, val) ==
    [ x \in DOMAIN r \cup {key} |-> IF x = key THEN val ELSE r[x] ]

\* [1, ..., n]
Range1(n) == [ i \in 1..n |-> i ]

(***************************************************************************)
(* conid_scraper.py: IdScraper                                             *)
(***************************************************************************)
ScraperSides == << "P", "C" >>

\* The (month, strike, right) triples in the order the nested for loops of
\* req_data visit them
ScraperTriple(ms, ss, n) ==
    LET perMonth == Len(ss) * 2
        mi == ((n - 1) \div perMonth) + 1
        r == (n - 1) % perMonth
    IN [ m |-> ms[mi], j |-> ss[(r \div 2) + 1], k |-> ScraperSides[(r % 2) + 1] ]

ScraperCount(ms, ss) == Len(ms) * Len(ss) * 2

\* The dict req_data appends for request id
ScraperRecord(id, t) ==
    [ id |-> id, symbol |-> "CL", sectype |-> "FOP", class |-> "LO",
      exchange |-> "NYMEX", currency |-> "USD",
      expiry |-> t.m, side |-> t.k, strike |-> t.j, conid |-> 0 ]

\* The ids the script sends requests with, from start to end
ScraperIds == { nextId + n - 1 : n \in 1..ScraperCount(months, strikes) }

\* IdScraper.contractDetails on one record
ScraperDetails(m, req_id, conId, date) ==
    IF m.id = req_id
    THEN SetKey(SetKey(m, "conid", conId), "contr_month", date)
    ELSE m

\* A variant of ScraperHaveAll: a record without conid does not clear have_all
ScraperHaveAllKept(m, h) == h

\* wait_for_finish: the body of "for m in self.data" for one record
ScraperHaveAll(m, h) == IF m.conid = 0 THEN FALSE ELSE h

\* postprocess: the Financial Instrument string of a record, by its parts
ScraperInstString(m) ==
    << m.symbol, m.sectype, m.class, m.expiry, m.strike,
       IF m.side = "C" THEN "CALL" ELSE "PUT", m.exchange >>

InitScraper ==
    /\ script = "scraper"
    /\ main_pc = "s_start"
    /\ connected = TRUE
    /\ \E nm \in 0..MaxPairs, ns \in 0..MaxPairs :
          /\ nm * ns <= MaxPairs
          /\ nm + ns > 0
          /\ months = Range1(nm)
          /\ strikes = Range1(ns)
    /\ InitRangeVars

\* req_data: o = self.nextId
ScraperReqStart ==
    /\ main_pc = "s_start"
    /\ o' = nextId
    /\ idx' = 1
    /\ main_pc' = IF ScraperCount(months, strikes) = 0 THEN "s_wait" ELSE "s_append"
    /\ UNCHANGED << script, connected, newsVars, nextId, months, strikes, sent,
                    scraperVars, snapVars, pfVars >>

\* A variant of ScraperAppend: the request goes out without its record
ScraperAppendSkipped ==
    /\ main_pc = "s_append"
    /\ main_pc' = "s_request"
    /\ UNCHANGED << script, connected, newsVars, toolVars >>

\* req_data: self.data.append({...})
ScraperAppend ==
    /\ main_pc = "s_append"
    /\ data' = Append(data, ScraperRecord(o, ScraperTriple(months, strikes, idx)))
    /\ main_pc' = "s_request"
    /\ UNCHANGED << script, connected, newsVars, reqVars, have_all, written, snapVars, pfVars >>

\* req_data: self.reqContractDetails(o, ...); sleep; o = o + 1
ScraperRequest ==
    /\ main_pc = "s_request"
    /\ sent' = sent \cup {o}
    /\ o' = o + 1
    /\ idx' = idx + 1
    /\ main_pc' = IF idx < ScraperCount(months, strikes) THEN "s_append" ELSE "s_wait"
    /\ UNCHANGED << script, connected, newsVars, nextId, months, strikes,
                    scraperVars, snapVars, pfVars >>

\* wait_for_finish: the test of "while not have_all", then have_all = True
ScraperWaitTest ==
    /\ main_pc = "s_wait"
    /\ IF have_all
       THEN /\ main_pc' = "s_post"
            /\ UNCHANGED << have_all, idx, snapVars, pfVars >>
       ELSE /\ have_all' = TRUE
            /\ idx' = 1
            /\ main_pc' = IF Len(data) = 0 THEN "s_wait" ELSE "s_scan"
    /\ UNCHANGED << script, connected, newsVars, nextId, months, strikes, o, sent,
                    data, written, snapVars, pfVars >>

\* wait_for_finish: one turn of "for m in self.data"; the sleep follows the
\* last one
ScraperWaitScan ==
    /\ main_pc = "s_scan"
    /\ have_all' = ScraperHaveAll(data[idx], have_all)
    /\ idx' = idx + 1
    /\ main_pc' = IF idx < Len(data) THEN "s_scan" ELSE "s_wait"
    /\ UNCHANGED << script, connected, newsVars, nextId, months, strikes, o, sent,
                    data, written, snapVars, pfVars >>

\* postprocess
ScraperPostprocess ==
    /\ main_pc = "s_post"
    /\ data' = [ i \in DOMAIN data |->
                   SetKey(data[i], "Financial Instrument", ScraperInstString(data[i])) ]
    /\ idx' = 1
    /\ main_pc' = IF Len(data) = 0 THEN "s_disconnect" ELSE "s_write"
    /\ UNCHANGED << script, connected, newsVars, nextId, months, strikes, o, sent,
                    have_all, written, snapVars, pfVars >>

\* write_dynamo: one batch.put_item
ScraperWrite ==
    /\ main_pc = "s_write"
    /\ written' = Append(written, [ instString |-> data[idx]["Financial Instrument"],
                                    conid |-> data[idx].conid ])
    /\ idx' = idx + 1
    /\ main_pc' = IF idx < Len(data) THEN "s_write" ELSE "s_disconnect"
    /\ UNCHANGED << script, connected, newsVars, nextId, months, strikes, o, sent,
                    data, have_all, snapVars, pfVars >>

\* i.disconnect()
ScraperDisconnect ==
    /\ main_pc = "s_disconnect"
    /\ connected' = FALSE
    /\ main_pc' = "s_done"
    /\ UNCHANGED << script, newsVars, toolVars >>

\* IdScraper.contractDetails.  The API answers requests that were sent; an id
\* the script never uses stands for a response that belongs to no record.
ScraperContractDetails(req_id, conId, date) ==
    /\ script = "scraper" /\ connected
    /\ req_id \in sent \/ req_id \notin ScraperIds
    /\ data' = [ i \in DOMAIN data |-> ScraperDetails(data[i], req_id, conId, date) ]
    /\ UNCHANGED << commonVars, newsVars, reqVars, have_all, written, snapVars, pfVars >>

ScraperMain ==
    \/ ScraperReqStart
    \/ ScraperAppend
    \/ ScraperRequest
    \/ ScraperWaitTest
    \/ ScraperWaitScan
    \/ ScraperPostprocess
    \/ ScraperWrite
    \/ ScraperDisconnect

ScraperCallbacks ==
    \E req_id \in 0..(MaxNextId + 2 * MaxPairs), conId \in ConIds, date \in TradeDates :
        ScraperContractDetails(req_id, conId, date)

(***************************************************************************)
(* Python floats: a number or NaN.  == is False as soon as one side is NaN *)
(***************************************************************************)
Num(x) == [ nan |-> FALSE, v |-> x ]

NaN == [ nan |-> TRUE, v |-> 0 ]

\* np.isnan
isnan(x) == x.nan

\* Python's == on floats
FloatEq(a, b) == ~a.nan /\ ~b.nan /\ a.v = b.v

\* None, for the arguments the API may leave out
None == [ nan |-> FALSE, v |-> -1, none |-> TRUE ]

IsNone(x) == "none" \in DOMAIN x

\* int(round(n / d)) for n >= 0, d > 0: Python rounds halves to even
RoundDiv(n, d) ==
    LET q == n \div d
        r == n % d
    IN IF 2 * r < d THEN q
       ELSE IF 2 * r > d THEN q + 1
       ELSE IF q % 2 = 0 THEN q ELSE q + 1

(***************************************************************************)
(* tws/snapshot.py: Snapshot                                               *)
(***************************************************************************)
SnapSides == << "c", "p" >>

SnapSymbol == "CL"

\* create_instruments: p_to and p_from after the loop over self.account
SnapPTo(acct, pt) ==
    LET S == { acct[k].strike : k \in DOMAIN acct } \cup {pt}
    IN CHOOSE x \in S : \A y \in S : y <= x

SnapPFrom(acct, pf) ==
    LET S == { acct[k].strike : k \in DOMAIN acct } \cup {pf}
    IN CHOOSE x \in S : \A y \in S : x <= y

\* create_instruments: np.array(range(0, int(round((p_to - p_from) / p_step))))
\* * p_step + p_from
SnapStrikes(pf, pt, ps) ==
    LET n == IF pt >= pf THEN RoundDiv(pt - pf, ps) ELSE 0
    IN [ i \in 1..n |-> (i - 1) * ps + pf ]

SnapCount(ms, ss) == Len(ms) * Len(ss) * 2

\* The (month, strike, side) triples in the order of the nested for loops
SnapTriple(ms, ss, n) ==
    LET perMonth == Len(ss) * 2
        mi == ((n - 1) \div perMonth) + 1
        r == (n - 1) % perMonth
    IN [ m |-> ms[mi], i |-> ss[(r \div 2) + 1], j |-> SnapSides[(r % 2) + 1] ]

Upper(side) == IF side = "c" THEN "C" ELSE "P"

\* The dict create_instruments appends for request id
SnapRecord(id, t) ==
    [ x \in { "id", "Financial Instrument", "Strike", "Side", "Expiry",
              "Underlying Price", "Bid", "Ask", "Delta", "Gamma" } |->
        CASE x = "id" -> id
          [] x = "Financial Instrument" ->
                 << SnapSymbol, "FOP", "LO", t.m, t.i,
                    IF t.j = "c" THEN "CALL" ELSE "PUT", "NYMEX" >>
          [] x = "Strike" -> t.i
          [] x = "Side" -> Upper(t.j)
          [] x = "Expiry" -> t.m
          [] OTHER -> NaN ]

\* The ids create_instruments sends requests with: o = int(self.nextId) + 1
SnapFirstId == nextId + 1

\* A variant of SnapTickPrice: the tick is stored without looking at the id
SnapTickPriceAny(i, req_id, tick_type, price) ==
    IF tick_type = TICK_BID THEN SetKey(i, "Bid", Num(price))
    ELSE IF tick_type = TICK_ASK THEN SetKey(i, "Ask", Num(price))
    ELSE i

\* Snapshot.tickPrice on one record
SnapTickPrice(i, req_id, tick_type, price) ==
    IF i["id"] = req_id
    THEN IF tick_type = TICK_BID THEN SetKey(i, "Bid", Num(price))
         ELSE IF tick_type = TICK_ASK THEN SetKey(i, "Ask", Num(price))
         ELSE i
    ELSE i

\* Snapshot.contractDetails on one record
SnapDetails(i, req_id, conId, date) ==
    IF req_id = i["id"]
    THEN SetKey(SetKey(i, "conid", conId), "Days to Last Trading Day", date)
    ELSE i

\* Snapshot.tickOptionComputation on one record
SnapOptionComputation(i, req_id, tick_type, implied_vol, greek, und_price) ==
    IF i["id"] = req_id
    THEN LET i1 == IF ~IsNone(und_price)
                   THEN SetKey(i, "Underlying Price", und_price) ELSE i
         IN IF tick_type = TICK_MODEL_OPTION
            THEN SetKey(SetKey(SetKey(SetKey(SetKey(i1,
                     "Delta", greek), "Gamma", greek), "Theta", greek), "Vega", greek),
                     "Implied Vol. %",
                     IF IsNone(implied_vol) THEN "NA" ELSE << implied_vol.v * 100, "%" >>)
            ELSE i1
    ELSE i

\* A variant of SnapUpdatePortfolio: the symbol of the contract is not looked at
SnapUpdatePortfolioAny(acct, symbol, conId, position, average_cost, strike) ==
    [ k \in DOMAIN acct \cup {conId} |->
        IF k = conId
        THEN [ position |-> position, avg_price |-> average_cost, strike |-> strike ]
        ELSE acct[k] ]

\* Snapshot.updatePortfolio on self.account
SnapUpdatePortfolio(acct, symbol, conId, position, average_cost, strike) ==
    IF symbol = SnapSymbol
    THEN [ k \in DOMAIN acct \cup {conId} |->
             IF k = conId
             THEN [ position |-> position, avg_price |-> average_cost, strike |-> strike ]
             ELSE acct[k] ]
    ELSE acct

\* wait_to_finish: the test of the if in "for i in self.chain"
SnapMissing(i) ==
    (isnan(i["Ask"]) /\ isnan(i["Bid"])) \/ FloatEq(i["Delta"], NaN)

\* Variants of SnapBreak: the loop is left after every poll, or never by the
\* break
SnapBreakAlways(cp, c) == TRUE

SnapBreakNever(cp, c) == FALSE

\* wait_to_finish: "if c_prev == c1: break"
SnapBreak(cp, c) == cp = c

InitSnapVars ==
    /\ chain = << >>
    /\ account = << >>
    /\ acct_updates_ongoing = TRUE
    /\ acctSubscribed = FALSE
    /\ found = FALSE
    /\ c1 = 0
    /\ c_prev = 0
    /\ missing_log = << >>
    /\ response = 0
    /\ export_log = << >>
    /\ put_items = 0

InitSnapshot ==
    /\ script = "snapshot"
    /\ main_pc = "p_start"
    /\ connected = TRUE
    /\ \E nm \in SnapMonths : months = Range1(nm)
    /\ strikes = << >>
    /\ p_from = 1
    /\ p_to \in SnapPrices
    /\ p_step \in SnapSteps
    /\ p_from <= p_to
    /\ SnapCount(months, SnapStrikes(p_from, p_to, p_step)) <= MaxChain

\* create_instruments: self.acct_updates_ongoing = True; reqAccountUpdates
SnapReqAccountUpdates ==
    /\ main_pc = "p_start"
    /\ acct_updates_ongoing' = TRUE
    /\ acctSubscribed' = TRUE
    /\ main_pc' = "p_acct_wait"
    /\ UNCHANGED << script, connected, newsVars, reqVars, scraperVars, chain,
                    account, rangeVars, waitVars, pfVars, exportVars >>

\* A variant of SnapAccountWait: the loop is left while the download is ongoing
SnapAccountWaitNone ==
    /\ main_pc = "p_acct_wait"
    /\ main_pc' = "p_strikes"
    /\ UNCHANGED << script, connected, newsVars, toolVars >>

\* create_instruments: while self.acct_updates_ongoing: sleep
SnapAccountWait ==
    /\ main_pc = "p_acct_wait"
    /\ ~acct_updates_ongoing
    /\ main_pc' = "p_strikes"
    /\ UNCHANGED << script, connected, newsVars, toolVars >>

\* create_instruments: the strike range, self.strikes, o = int(self.nextId) + 1
SnapMakeStrikes ==
    /\ main_pc = "p_strikes"
    /\ p_to' = SnapPTo(account, p_to)
    /\ p_from' = SnapPFrom(account, p_from)
    /\ strikes' = SnapStrikes(p_from', p_to', p_step)
    /\ o' = SnapFirstId
    /\ idx' = 1
    /\ main_pc' = IF SnapCount(months, strikes') = 0 THEN "w_start" ELSE "p_append"
    /\ UNCHANGED << script, connected, newsVars, nextId, months, sent, scraperVars,
                    chain, account, acct_updates_ongoing, acctSubscribed, p_step,
                    waitVars, pfVars, exportVars >>

\* create_instruments: self.chain.append({...})
SnapAppend ==
    /\ main_pc = "p_append"
    /\ chain' = Append(chain, SnapRecord(o, SnapTriple(months, strikes, idx)))
    /\ main_pc' = "p_request"
    /\ UNCHANGED << script, connected, newsVars, reqVars, scraperVars, account,
                    acct_updates_ongoing, acctSubscribed, rangeVars, waitVars, pfVars, exportVars >>

\* create_instruments: sleep; reqMktData(o, ...); reqContractDetails(o, ...);
\* o = o + 1
SnapRequest ==
    /\ main_pc = "p_request"
    /\ sent' = sent \cup {o}
    /\ o' = o + 1
    /\ idx' = idx + 1
    /\ main_pc' = IF idx < SnapCount(months, strikes) THEN "p_append" ELSE "w_start"
    /\ UNCHANGED << script, connected, newsVars, nextId, months, strikes,
                    scraperVars, snapVars, pfVars >>

\* wait_to_finish: found = False; c1 = 0
SnapWaitStart ==
    /\ main_pc = "w_start"
    /\ found' = FALSE
    /\ c1' = 0
    /\ main_pc' = "w_test"
    /\ UNCHANGED << script, connected, newsVars, reqVars, scraperVars, chain,
                    account, acct_updates_ongoing, acctSubscribed, rangeVars,
                    c_prev, missing_log, pfVars, exportVars >>

\* wait_to_finish: the test of "while not found", then c_prev = c1; c1 = 0;
\* found = True
SnapWaitTest ==
    /\ main_pc = "w_test"
    /\ IF found
       THEN /\ main_pc' = "w_done"
            /\ UNCHANGED << found, c1, c_prev, idx, pfVars >>
       ELSE /\ c_prev' = c1
            /\ c1' = 0
            /\ found' = TRUE
            /\ idx' = 1
            /\ main_pc' = IF Len(chain) = 0 THEN "w_log" ELSE "w_scan"
    /\ UNCHANGED << script, connected, newsVars, nextId, months, strikes, o, sent,
                    scraperVars, chain, account, acct_updates_ongoing,
                    acctSubscribed, rangeVars, missing_log, pfVars, exportVars >>

\* wait_to_finish: one turn of "for i in self.chain"
SnapWaitScan ==
    /\ main_pc = "w_scan"
    /\ IF SnapMissing(chain[idx])
       THEN /\ found' = FALSE
            /\ c1' = c1 + 1
       ELSE UNCHANGED << found, c1, pfVars >>
    /\ idx' = idx + 1
    /\ main_pc' = IF idx < Len(chain) THEN "w_scan" ELSE "w_log"
    /\ UNCHANGED << script, connected, newsVars, nextId, months, strikes, o, sent,
                    scraperVars, chain, account, acct_updates_ongoing,
                    acctSubscribed, rangeVars, c_prev, missing_log, pfVars, exportVars >>

\* wait_to_finish: the log of the count, the sleep and "if c_prev == c1: break"
SnapWaitLog ==
    /\ main_pc = "w_log"
    /\ missing_log' = Append(missing_log, c1)
    /\ main_pc' = IF SnapBreak(c_prev, c1) THEN "w_done" ELSE "w_test"
    /\ UNCHANGED << script, connected, newsVars, reqVars, scraperVars, chain,
                    account, acct_updates_ongoing, acctSubscribed, rangeVars,
                    found, c1, c_prev, pfVars, exportVars >>

\* prepare_df: pd.DataFrame(self.chain) has a column for every key some
\* record has; df["Ask"] on an empty chain, or
\* df["Days to Last Trading Day"] when no record got its contract details,
\* raises KeyError and ends the script.  The frame itself is not followed.
SnapPrepareDf ==
    /\ main_pc = "w_done"
    /\ main_pc' = IF \E n \in DOMAIN chain : "Days to Last Trading Day" \in DOMAIN chain[n]
                  THEN "p_export" ELSE "p_crashed"
    /\ UNCHANGED << script, connected, newsVars, toolVars >>

\* A variant of SnapIsOk: every response is taken for a success
SnapIsOkAlways(code) == TRUE

\* export_dynamo: is_ok = response["ResponseMetadata"]["HTTPStatusCode"] == 200
SnapIsOk(code) == code = HTTP_OK

\* export_dynamo: one table.put_item, then the log of the outcome
SnapExportDynamo(code) ==
    /\ main_pc = "p_export"
    /\ put_items' = put_items + 1
    /\ response' = code
    /\ export_log' = Append(export_log, IF SnapIsOk(code) THEN "verbose: successful"
                                                         ELSE "error: failed")
    /\ main_pc' = "p_disconnect"
    /\ UNCHANGED << script, connected, newsVars, reqVars, scraperVars, chain, account,
                    acct_updates_ongoing, acctSubscribed, rangeVars, waitVars, pfVars >>

\* tws.disconnect(), after the export
SnapDisconnect ==
    /\ main_pc = "p_disconnect"
    /\ connected' = FALSE
    /\ main_pc' = "p_done"
    /\ UNCHANGED << script, newsVars, toolVars >>

\* The API answers requests that were sent; an id the script never uses stands
\* for a response that belongs to no record.
SnapDeliverable(req_id) ==
    \/ req_id \in sent
    \/ req_id < SnapFirstId

\* Snapshot.tickPrice
SnapTickPriceCb(req_id, tick_type, price) ==
    /\ script = "snapshot" /\ connected
    /\ SnapDeliverable(req_id)
    /\ chain' = [ n \in DOMAIN chain |-> SnapTickPrice(chain[n], req_id, tick_type, price) ]
    /\ UNCHANGED << commonVars, newsVars, reqVars, scraperVars, account,
                    acct_updates_ongoing, acctSubscribed, rangeVars, waitVars, pfVars, exportVars >>

\* Snapshot.contractDetails
SnapContractDetailsCb(req_id, conId, date) ==
    /\ script = "snapshot" /\ connected
    /\ SnapDeliverable(req_id)
    /\ chain' = [ n \in DOMAIN chain |-> SnapDetails(chain[n], req_id, conId, date) ]
    /\ UNCHANGED << commonVars, newsVars, reqVars, scraperVars, account,
                    acct_updates_ongoing, acctSubscribed, rangeVars, waitVars, pfVars, exportVars >>

\* Snapshot.tickOptionComputation
SnapOptionComputationCb(req_id, tick_type, implied_vol, greek, und_price) ==
    /\ script = "snapshot" /\ connected
    /\ SnapDeliverable(req_id)
    /\ chain' = [ n \in DOMAIN chain |->
                    SnapOptionComputation(chain[n], req_id, tick_type, implied_vol,
                                          greek, und_price) ]
    /\ UNCHANGED << commonVars, newsVars, reqVars, scraperVars, account,
                    acct_updates_ongoing, acctSubscribed, rangeVars, waitVars, pfVars, exportVars >>

\* Snapshot.updatePortfolio; positions whose strikes would widen the chain
\* beyond MaxChain records are left out
SnapUpdatePortfolioCb(symbol, conId, position, average_cost, strike) ==
    /\ script = "snapshot" /\ connected /\ acctSubscribed
    /\ account' = SnapUpdatePortfolio(account, symbol, conId, position,
                                      average_cost, strike)
    /\ SnapCount(months, SnapStrikes(SnapPFrom(account', p_from),
                                     SnapPTo(account', p_to), p_step)) <= MaxChain
    /\ UNCHANGED << commonVars, newsVars, reqVars, scraperVars, chain,
                    acct_updates_ongoing, acctSubscribed, rangeVars, waitVars, pfVars, exportVars >>

\* Snapshot.accountDownloadEnd
SnapAccountDownloadEnd ==
    /\ script = "snapshot" /\ connected /\ acctSubscribed
    /\ acct_updates_ongoing' = FALSE
    /\ UNCHANGED << commonVars, newsVars, reqVars, scraperVars, chain, account,
                    acctSubscribed, rangeVars, waitVars, pfVars, exportVars >>

\* implied_vol and und_price of tickOptionComputation; the ticks followed are
\* the model computations, which carry the underlying price, and the
\* computations of other tick types without it
ImpliedVols == { Num(x) : x \in TickValues }

UndPrices == { Num(x) : x \in TickValues } \cup {None}

SnapMain ==
    \/ SnapReqAccountUpdates
    \/ SnapAccountWait
    \/ SnapMakeStrikes
    \/ SnapAppend
    \/ SnapRequest
    \/ SnapWaitStart
    \/ SnapWaitTest
    \/ SnapWaitScan
    \/ SnapWaitLog
    \/ SnapPrepareDf
    \/ \E code \in HttpCodes : SnapExportDynamo(code)
    \/ SnapDisconnect

SnapCallbacks ==
    \/ \E req_id \in 1..(MaxNextId + 1 + MaxChain), tick_type \in PriceTickTypes,
          price \in TickValues : SnapTickPriceCb(req_id, tick_type, price)
    \/ \E req_id \in 1..(MaxNextId + 1 + MaxChain), conId \in ConIds, date \in TradeDates :
          SnapContractDetailsCb(req_id, conId, date)
    \/ \E req_id \in 1..(MaxNextId + 1 + MaxChain),
          tick_type \in OptionTickTypes,
          implied_vol \in ImpliedVols,
          greek \in { Num(x) : x \in TickValues },
          und_price \in UndPrices :
          /\ (tick_type = TICK_MODEL_OPTION) = ~IsNone(und_price)
          /\ SnapOptionComputationCb(req_id, tick_type, implied_vol, greek, und_price)
    \/ \E symbol \in Symbols, conId \in AcctConIds, position \in Positions,
          average_cost \in Positions, strike \in SnapPrices :
          SnapUpdatePortfolioCb(symbol, conId, position, average_cost, strike)
    \/ SnapAccountDownloadEnd

(***************************************************************************)
(* tws/portfolio.py: Portfolio.  get_account_summary and                   *)
(* get_account_details are the two entry points; each is one script.       *)
(***************************************************************************)
InitPfVars ==
    /\ haveData = FALSE
    /\ summaryRequested = FALSE
    /\ portfolio = << >>

InitPortfolio ==
    /\ script \in {"pf_summary", "pf_details"}
    /\ main_pc = "f_start"
    /\ connected = FALSE
    /\ months = << >>
    /\ strikes = << >>
    /\ p_from = 0
    /\ p_to = 0
    /\ p_step = 1

\* get_account_summary / get_account_details: connect; self.haveData = False;
\* reqAccountSummary or reqAccountUpdates(True, ...)
PfRequest ==
    /\ main_pc = "f_start"
    /\ connected' = TRUE
    /\ haveData' = FALSE
    /\ summaryRequested' = (script = "pf_summary")
    /\ acctSubscribed' = (script = "pf_details")
    /\ main_pc' = "f_wait"
    /\ UNCHANGED << script, newsVars, reqVars, scraperVars, chain, account,
                    acct_updates_ongoing, rangeVars, waitVars, portfolio, exportVars >>

\* while not self.haveData: sleep
PfWait ==
    /\ main_pc = "f_wait"
    /\ haveData
    /\ main_pc' = "f_end"
    /\ UNCHANGED << script, connected, newsVars, toolVars >>

\* get_account_details: reqAccountUpdates(False, ...); both: disconnect
PfDisconnect ==
    /\ main_pc = "f_end"
    /\ acctSubscribed' = FALSE
    /\ summaryRequested' = FALSE
    /\ connected' = FALSE
    /\ main_pc' = "f_done"
    /\ UNCHANGED << script, newsVars, reqVars, scraperVars, chain, account,
                    acct_updates_ongoing, rangeVars, waitVars, haveData, portfolio, exportVars >>

\* Portfolio.accountSummary and Portfolio.updateAccountValue: log only
PfAccountValue ==
    /\ script \in {"pf_summary", "pf_details"} /\ connected
    /\ summaryRequested \/ acctSubscribed
    /\ UNCHANGED vars

\* Portfolio.accountSummaryEnd
PfAccountSummaryEnd ==
    /\ script = "pf_summary" /\ connected /\ summaryRequested
    /\ haveData' = TRUE
    /\ UNCHANGED << commonVars, newsVars, reqVars, scraperVars, snapVars,
                    summaryRequested, portfolio >>

\* Portfolio.accountDownloadEnd
PfAccountDownloadEnd ==
    /\ script = "pf_details" /\ connected /\ acctSubscribed
    /\ haveData' = TRUE
    /\ UNCHANGED << commonVars, newsVars, reqVars, scraperVars, snapVars,
                    summaryRequested, portfolio >>

\* Portfolio.updatePortfolio: self.portfolio.append({"cont": contract})
PfUpdatePortfolio(conId) ==
    /\ script = "pf_details" /\ connected /\ acctSubscribed
    /\ Len(portfolio) < MaxPortfolio
    /\ portfolio' = Append(portfolio, [ cont |-> conId ])
    /\ UNCHANGED << commonVars, newsVars, reqVars, scraperVars, snapVars,
                    haveData, summaryRequested >>

PfMain ==
    \/ PfRequest
    \/ PfWait
    \/ PfDisconnect

PfCallbacks ==
    \/ PfAccountValue
    \/ PfAccountSummaryEnd
    \/ PfAccountDownloadEnd
    \/ \E conId \in AcctConIds : PfUpdatePortfolio(conId)

(***************************************************************************)
(* TwsTool, the base class of IdScraper, Snapshot and Portfolio            *)
(***************************************************************************)
\* TwsTool.error: the error is logged and otherwise ignored
ToolError ==
    /\ script # "news" /\ connected
    /\ UNCHANGED vars

(***************************************************************************)
(* The specification                                                       *)
(***************************************************************************)
NewsCallbacks ==
    \/ \E order_id \in 1..MaxOrderId : nextValidId(order_id)
    \/ \E tick_type \in TickTypes, price \in LastTicks : tickPrice(tick_type, price)
    \/ \E order_id \in placed, ost \in OrderStates : orderStatus(order_id, ost)
    \/ OrderStatusSecondIf
    \/ OrderStatusThirdIf
    \/ execDetails
    \/ \E e \in Errors : error(e.id, e.code)

NewsMain ==
    \/ TraderInit
    \/ req_data
    \/ TradePrepare
    \/ TradePriceUpdate
    \/ MainPlaceOrders
    \/ MainSetHot
    \/ MainSetTraderStatusHot
    \/ \E user_input \in UserInputs : UserCommand(user_input)
    \/ UserCommandHActive
    \/ stop
    \/ StopDisconnect

NewsAdjust ==
    \/ AdjCheck
    \/ AdjPriceUpdate
    \/ AdjPlaceOrders
    \/ AdjSetHot

Init ==
    /\ InitNewsVars
    /\ InitReqVars
    /\ InitScraperVars
    /\ InitSnapVars
    /\ InitPfVars
    /\ \/ InitNews
       \/ InitScraper
       \/ InitSnapshot
       \/ InitPortfolio

MainThread ==
    \/ NewsMain
    \/ ScraperMain
    \/ SnapMain
    \/ PfMain

Next ==
    \/ NewsCallbacks
    \/ NewsMain
    \/ NewsAdjust
    \/ ScraperCallbacks
    \/ ScraperMain
    \/ SnapCallbacks
    \/ SnapMain
    \/ PfCallbacks
    \/ PfMain
    \/ ToolError

Spec == Init /\ [][Next]_vars

\* The main thread is scheduled; the environment owes no callback
FairSpec == Init /\ [][Next]_vars /\ WF_vars(MainThread)

(***************************************************************************)
(* Callback steps, for the properties of single callbacks                  *)
(***************************************************************************)
RequestIds == 0..(MaxNextId + 2 * MaxPairs + MaxChain + 1)

\* An orderStatus callback returns with this step
OrderStatusStep == OrderStatusThirdIf

\* prepare_orders has assigned the order ids
Prepared == orders.long_entry.orderId.k = "str"

\* The nextValidOrderId prepare_orders assigned the ids from
PreparedBase == orders.long_entry.orderId.v

\* The records whose id is not r are the same after the step
FrameOutside(old, new, r) ==
    /\ DOMAIN new = DOMAIN old
    /\ \A n \in DOMAIN old : old[n]["id"] # r => new[n] = old[n]

AtMostOne(recs, r) == Cardinality({ n \in DOMAIN recs : recs[n]["id"] = r }) <= 1

(***************************************************************************)
(* C1: every change of the trader status made by the orderStatus callback  *)
(* is HOT -> ACTIVE or ACTIVE -> COLD; the callback never moves the status *)
(* COLD -> ACTIVE or HOT -> COLD.                                          *)
(***************************************************************************)
C1_CallbackTransitions ==
    [][ OrderStatusStep =>
          \/ status' = os_entry
          \/ os_entry = "HOT" /\ status' = "ACTIVE"
          \/ os_entry = "ACTIVE" /\ status' = "COLD" ]_vars

(***************************************************************************)
(* C2: once prepare_orders has assigned the ids from nextValidOrderId = o, *)
(* a callback with the integer id o or o+3 while HOT sets the status to    *)
(* ACTIVE, and one with o+1, o+2, o+4 or o+5 while ACTIVE sets it to COLD. *)
(***************************************************************************)
C2_IntegerIdMatches ==
    [][ (Prepared /\ OrderStatusStep) =>
          /\ (os_entry = "HOT" /\ order_cb.id \in {PreparedBase, PreparedBase + 3})
                => status' = "ACTIVE"
          /\ (os_entry = "ACTIVE" /\ order_cb.id \in {PreparedBase + 1, PreparedBase + 2,
                                                      PreparedBase + 4, PreparedBase + 5})
                => status' = "COLD" ]_vars

(***************************************************************************)
(* C3: an orderStatus callback changes the trader status only when it      *)
(* reports an execution; callbacks reporting Submitted, PreSubmitted or    *)
(* Cancelled leave the status unchanged.                                   *)
(***************************************************************************)
C3_OnlyFillsChangeStatus ==
    [][ (OrderStatusStep /\ order_cb.ost # "Filled") => status' = os_entry ]_vars

(***************************************************************************)
(* C4: every record the contract-id scraper writes to the table has        *)
(* conid # 0, whatever the order and timing of the contractDetails         *)
(* callbacks.                                                              *)
(***************************************************************************)
C4_NoIncompleteExport ==
    \A n \in DOMAIN written : written[n].conid # 0

C4_Exported ==
    /\ script = "scraper"
    /\ main_pc = "s_done"
    /\ Len(written) >= 2
    /\ Len(written) = Len(data)

(***************************************************************************)
(* C5: wait_to_finish returns only when its latest poll counted no record  *)
(* as missing, or counted as many as the poll before; it never returns     *)
(* after a single poll that found records missing.                         *)
(***************************************************************************)
C5_ReturnCondition ==
    (script = "snapshot" /\ main_pc \in {"w_done", "p_export", "p_disconnect",
                                         "p_done", "p_crashed"}) =>
        LET n == Len(missing_log)
        IN /\ n >= 1
           /\ \/ missing_log[n] = 0
              \/ n >= 2 /\ missing_log[n] = missing_log[n - 1]

C5_StagnationReturn ==
    /\ script = "snapshot"
    /\ main_pc = "w_done"
    /\ Len(missing_log) >= 2
    /\ missing_log[Len(missing_log)] > 0

(***************************************************************************)
(* C6: a chain record whose Bid is NaN, or whose Ask is NaN, or whose      *)
(* Delta is NaN is counted as missing, so that a poll ends with found =    *)
(* true only when every record has bid, ask and delta set.                 *)
(***************************************************************************)
C6_SentinelsCounted ==
    \A n \in DOMAIN chain :
        (isnan(chain[n]["Bid"]) \/ isnan(chain[n]["Ask"]) \/ isnan(chain[n]["Delta"]))
            => SnapMissing(chain[n])

(***************************************************************************)
(* C7: every "all filled" loop (IdScraper.wait_for_finish, the account     *)
(* wait of Snapshot.create_instruments, the haveData waits of Portfolio)   *)
(* eventually exits, also when an awaited response never arrives.          *)
(***************************************************************************)
AllFilledWaitExited ==
    \/ script = "scraper" /\ main_pc \in {"s_post", "s_write", "s_disconnect", "s_done"}
    \/ script = "snapshot" /\ main_pc \notin {"p_start", "p_acct_wait"}
    \/ script \in {"pf_summary", "pf_details"} /\ main_pc \in {"f_end", "f_done"}

C7_LoopsAlwaysExit == <>(script = "news" \/ AllFilledWaitExited)

(***************************************************************************)
(* C8: wait_to_finish ends after at most len(chain) + 1 polls, for every   *)
(* arrival pattern of the tick callbacks, also when none arrives: the      *)
(* count of polls never passes that bound, and a loop that has made that   *)
(* many polls has found every record filled.                               *)
(***************************************************************************)
C8_PollBound ==
    script = "snapshot" =>
        /\ Len(missing_log) <= Len(chain) + 1
        /\ (main_pc = "w_test" /\ Len(missing_log) = Len(chain) + 1) => found

C8_MostPolls ==
    /\ script = "snapshot"
    /\ main_pc = "w_done"
    /\ Len(chain) = 2
    /\ missing_log = << 2, 1, 0 >>

(***************************************************************************)
(* C9: the request ids of the records are consecutive and pairwise         *)
(* distinct, so a response callback with request id r leaves every record  *)
(* whose id is not r unchanged, at most one record has the id r, and a     *)
(* callback whose id matches no record changes no record.                  *)
(***************************************************************************)
IdsConsecutive ==
    /\ \A n \in DOMAIN data : data[n].id = nextId + n - 1
    /\ \A n \in DOMAIN chain : chain[n]["id"] = nextId + n

C9_CallbackFrame ==
    [][ /\ IdsConsecutive'
        /\ (data' # data \/ chain' # chain) =>
              /\ \A r \in RequestIds, conId \in ConIds, date \in TradeDates :
                   /\ ScraperContractDetails(r, conId, date)
                         => FrameOutside(data, data', r) /\ AtMostOne(data, r)
                   /\ SnapContractDetailsCb(r, conId, date)
                         => FrameOutside(chain, chain', r) /\ AtMostOne(chain, r)
              /\ \A r \in RequestIds, tick_type \in PriceTickTypes,
                    price \in TickValues :
                   SnapTickPriceCb(r, tick_type, price)
                      => FrameOutside(chain, chain', r) /\ AtMostOne(chain, r)
              /\ \A r \in RequestIds, tick_type \in OptionTickTypes,
                    implied_vol \in ImpliedVols, greek \in ImpliedVols,
                    und_price \in UndPrices :
                   SnapOptionComputationCb(r, tick_type, implied_vol, greek, und_price)
                      => FrameOutside(chain, chain', r) /\ AtMostOne(chain, r) ]_vars

C9_OneRecordFilled ==
    /\ script = "snapshot"
    /\ Len(chain) = 2
    /\ ~isnan(chain[1]["Bid"])
    /\ isnan(chain[2]["Bid"])
    /\ isnan(chain[2]["Ask"])

(***************************************************************************)
(* C10: the record with id r is in the table before any request tagged r   *)
(* is sent, so no response to a request can arrive while its record does   *)
(* not exist.                                                              *)
(***************************************************************************)
C10_RecordBeforeRequest ==
    /\ script = "scraper" => \A r \in sent : \E n \in DOMAIN data : data[n].id = r
    /\ script = "snapshot" => \A r \in sent : \E n \in DOMAIN chain : chain[n]["id"] = r

C10_RequestsInFlight ==
    /\ script = "scraper"
    /\ main_pc = "s_append"
    /\ sent # {}
    /\ \E n \in DOMAIN data : data[n].conid # 0

(***************************************************************************)
(* C11: create_instruments sends no market-data or contract-details        *)
(* request for the chain, and does not compute the strike range, before    *)
(* the accountDownloadEnd callback of the account subscription it started  *)
(* has been received (the only writer of acct_updates_ongoing = False).    *)
(***************************************************************************)
C11_RequestsAfterDownloadEnd ==
    script = "snapshot" =>
        /\ (sent # {} \/ chain # << >>) => ~acct_updates_ongoing
        /\ main_pc \notin {"p_start", "p_acct_wait"} => ~acct_updates_ongoing
        /\ main_pc \in {"p_start", "p_acct_wait", "p_strikes"} => strikes = << >>

C11_ChainRequestedAfterDownload ==
    /\ script = "snapshot"
    /\ main_pc = "p_request"
    /\ sent # {}
    /\ DOMAIN account # {}
    /\ ~acct_updates_ongoing

(***************************************************************************)
(* C12: self.account changes only by updatePortfolio callbacks for         *)
(* contracts of the configured symbol.  Such a callback leaves exactly one *)
(* entry for its conId, carrying the position, average cost and strike of  *)
(* that callback, and leaves the entries of the other conIds as they were; *)
(* a callback for a contract of another symbol never changes the map.      *)
(***************************************************************************)
C12_AccountMap ==
    [][ account' # account =>
          /\ \E symbol \in Symbols, conId \in AcctConIds, position \in Positions,
                average_cost \in Positions, strike \in SnapPrices :
                SnapUpdatePortfolioCb(symbol, conId, position, average_cost, strike)
          /\ \A symbol \in Symbols, conId \in AcctConIds, position \in Positions,
                average_cost \in Positions, strike \in SnapPrices :
                SnapUpdatePortfolioCb(symbol, conId, position, average_cost, strike) =>
                   /\ symbol = SnapSymbol
                   /\ DOMAIN account' = DOMAIN account \cup {conId}
                   /\ account'[conId].position = position
                   /\ account'[conId].avg_price = average_cost
                   /\ account'[conId].strike = strike
                   /\ \A k \in DOMAIN account \ {conId} : account'[k] = account[k] ]_vars

C12_TwoPositionsHeld ==
    /\ script = "snapshot"
    /\ DOMAIN account = AcctConIds
    /\ \E k1, k2 \in DOMAIN account : account[k1].strike # account[k2].strike

(***************************************************************************)
(* C15: export_dynamo makes one put_item call and logs the export error    *)
(* if and only if the HTTPStatusCode of the response differs from 200; it  *)
(* logs success otherwise, and in both cases returns to its caller, which  *)
(* goes on to disconnect, without a second put_item.                       *)
(***************************************************************************)
C15_ExportStatusCheck ==
    /\ put_items <= 1
    /\ Len(export_log) = put_items
    /\ script = "snapshot" =>
          /\ (put_items = 1) = (main_pc \in {"p_disconnect", "p_done"})
          /\ put_items = 1 =>
                /\ (export_log[1] = "error: failed") = (response # HTTP_OK)
                /\ (export_log[1] = "verbose: successful") = (response = HTTP_OK)

C15_FailedExportFlagged ==
    /\ script = "snapshot"
    /\ main_pc = "p_done"
    /\ response = 500
    /\ export_log = << "error: failed" >>

(***************************************************************************)
(* C13: after prepare_orders with last_price > 0 and nextValidOrderId = o, *)
(* the six orders go out under the pairwise distinct ids o, o+1, ..., o+5, *)
(* and on each side the target and the trailing stop have a parentId equal *)
(* to the orderId of the entry of that side.                               *)
(***************************************************************************)
C13_BracketLinked ==
    (script = "news" /\ Prepared) =>
        /\ \A i \in 1..6 : Wire(get_orders(orders)[i].orderId) = nextValidOrderId + i - 1
        /\ Cardinality(PlacedIds(orders)) = 6
        /\ PyEq(orders.long_tgt.parentId, orders.long_entry.orderId)
        /\ PyEq(orders.long_trail.parentId, orders.long_entry.orderId)
        /\ PyEq(orders.short_tgt.parentId, orders.short_entry.orderId)
        /\ PyEq(orders.short_trail.parentId, orders.short_entry.orderId)

C13_BracketPlaced ==
    /\ script = "news"
    /\ Prepared
    /\ nextValidOrderId = 2
    /\ placed = 2..7
    /\ status = "HOT"

(***************************************************************************)
(* C14: the error callback of the news trader logs the error and changes   *)
(* nothing else: the trader status, last_price, set_price and the six      *)
(* orders are the same after it, whatever request id and error code it     *)
(* reports.                                                                *)
(***************************************************************************)
C14_ErrorOnlyLogged ==
    [][ err_log' # err_log =>
          /\ \E e \in Errors : error(e.id, e.code)
          /\ status' = status
          /\ last_price' = last_price
          /\ set_price' = set_price
          /\ orders' = orders ]_vars

C14_ErrorWhileHot ==
    /\ script = "news"
    /\ err_log \in Errors
    /\ err_log.id = 3
    /\ status = "HOT"
    /\ open # {}

(***************************************************************************)
(* C16: whenever the status of the news trader is COLD, none of the        *)
(* bracket orders is open at the broker.  The states looked at are those   *)
(* in which no thread is inside place_orders or inside a callback: the     *)
(* main thread waits for a command, the adjustment thread sleeps.          *)
(***************************************************************************)
NewsAtRest ==
    /\ script = "news"
    /\ main_pc = "n_input"
    /\ adj_pc = "sleep"
    /\ os_pc = "idle"

C16_ColdMeansFlat ==
    (NewsAtRest /\ status = "COLD") => open = {}

(***************************************************************************)
(* C17: the user command C, given while the status is HOT, cancels the six *)
(* orders and sets the status to COLD, and the input loop goes on to the   *)
(* next command.                                                           *)
(***************************************************************************)
C17_CancelCommand ==
    [][ (status = "HOT" /\ UserCommand("C")) =>
          /\ open' \cap PlacedIds(orders) = {}
          /\ status' = "COLD"
          /\ main_pc' = "n_input" ]_vars

(***************************************************************************)
(* C18: after stop() has returned, none of the six bracket orders is open  *)
(* at the broker, whether stop() found the status HOT or ACTIVE.           *)
(***************************************************************************)
C18_StopCancelsAll ==
    (script = "news" /\ main_pc = "n_done" /\ stop_status \in {"HOT", "ACTIVE"}) =>
        open \cap PlacedIds(orders) = {}

(***************************************************************************)
(* C19: under every interleaving of the API thread with the adjustment     *)
(* thread, the adjustment thread neither sends the bracket orders again    *)
(* nor sets the status to HOT while the status is ACTIVE.                  *)
(***************************************************************************)
C19_ActiveKept ==
    [][ status = "ACTIVE" => ~(AdjPlaceOrders /\ connected) /\ ~AdjSetHot ]_vars

(***************************************************************************)
(* C20: whenever place_orders sends the six bracket orders, their order    *)
(* ids are pairwise distinct, also when trade() runs before any LAST tick  *)
(* has arrived.                                                            *)
(***************************************************************************)
C20_PlacedIdsDistinct ==
    [][ (MainPlaceOrders \/ (AdjPlaceOrders /\ connected)) =>
          Cardinality(PlacedIds(orders)) = 6 ]_vars

(***************************************************************************)
(* C21: whenever place_orders sends the orders, set_price is a price that  *)
(* came with a LAST tick (set_price > 0), never the placeholder -1.0 of    *)
(* the constructor.                                                        *)
(***************************************************************************)
C21_PlacedAroundKnownPrice ==
    [][ (MainPlaceOrders \/ (AdjPlaceOrders /\ connected)) =>
          (set_price > 0 /\ set_price # UNSET_PRICE) ]_vars

(***************************************************************************)
(* C22: once stop() has returned, no thread of the news trader calls       *)
(* placeOrder any more; the adjustment thread does not run place_orders    *)
(* again.                                                                  *)
(***************************************************************************)
C22_NoPlaceAfterStop ==
    [][ (script = "news" /\ main_pc = "n_done") =>
          ~(AdjPlaceOrders \/ MainPlaceOrders) ]_vars

(***************************************************************************)
(* C23: after prepare_orders the long and the short entry order are in one *)
(* and the same OCA group; the target and the trailing stop of a side      *)
(* share a group, which differs from the group of the other side.          *)
(***************************************************************************)
C23_OcaGroups ==
    (script = "news" /\ Prepared) =>
        /\ orders.long_entry.ocaGroup = orders.short_entry.ocaGroup
        /\ orders.long_tgt.ocaGroup = orders.long_trail.ocaGroup
        /\ orders.short_tgt.ocaGroup = orders.short_trail.ocaGroup
        /\ orders.long_tgt.ocaGroup # orders.short_tgt.ocaGroup

(***************************************************************************)
(* C24: by the time place_orders has sent the six orders, the trailing     *)
(* stop of each side, the last order of its bracket, has transmit = true.  *)
(***************************************************************************)
C24_BracketTransmitted ==
    (script = "news" /\ placed # {}) =>
        /\ orders.long_trail.transmit
        /\ orders.short_trail.transmit

(***************************************************************************)
(* C25: the command H given while the status is ACTIVE places no order and *)
(* leaves the status ACTIVE, through both ifs of its handler; given while  *)
(* the status is COLD it runs place_orders, which sends the six orders,    *)
(* and its set_trader_status leaves the status HOT.                        *)
(***************************************************************************)
C25_CommandH ==
    [][ /\ (main_pc = "n_input" /\ status = "ACTIVE" /\ UserCommand("H")) =>
              /\ main_pc' = "n_h_active"
              /\ status' = "ACTIVE"
              /\ placed' = placed /\ open' = open /\ orders' = orders
        /\ UserCommandHActive =>
              /\ main_pc' = "n_input"
              /\ status' = status
              /\ placed' = placed /\ open' = open /\ orders' = orders
        /\ (main_pc = "n_input" /\ status = "COLD" /\ UserCommand("H")) =>
              main_pc' = "n_place_h"
        /\ (main_pc = "n_place_h" /\ MainPlaceOrders) =>
              /\ PlacedIds(orders) \subseteq placed'
              /\ main_pc' = "n_hot_h"
        /\ (main_pc = "n_hot_h" /\ MainSetHot) =>
              (status' = "HOT" /\ main_pc' = "n_set_h")
        /\ MainSetTraderStatusHot =>
              (status' = "HOT" /\ main_pc' = "n_h_active") ]_vars

\* the handler of H has found the status COLD, has placed the orders and is
\* about to call set_trader_status(HOT)
C25_ColdMadeHot ==
    /\ script = "news"
    /\ main_pc = "n_set_h"
    /\ status = "HOT"
    /\ PlacedIds(orders) \subseteq placed

====
